---------------------------- MODULE Spec2Model ----------------------------
(***************************************************************************)
(* A model of chatbot_web_V1/chatbot_logic.py: GeminiChatService (the      *)
(* session wrapper), ChatHistoryManager (the JSON history file) and        *)
(* ChatController (the coordinator that runs each exchange on a thread);   *)
(* and of the Streamlit scripts ChatBot_beta.py and TTS_beta/ChatBot_TTS.py *)
(* that use GeminiChatService from a web page.                             *)
(*                                                                         *)
(* Text is a sequence of Unicode code points, a file is a sequence of      *)
(* bytes.  json.dump / json.load and the utf-8 codec of open() are         *)
(* modelled by what they do to those sequences.                            *)
(***************************************************************************)
EXTENDS Integers, Sequences, FiniteSets, TLC

(***************************************************************************)
(* Bounds of the model.                                                    *)
(***************************************************************************)
MaxWorkers == 2     \* send_message calls (worker threads) in one run
MaxChunks == 1      \* chunks one response stream delivers at most
MaxStarts == 2      \* start_chat calls (session objects created) in one run
MaxTurns == 2       \* turns of a transcript handed directly to save

(***************************************************************************)
(* Sequence helpers.                                                       *)
(***************************************************************************)
\* The concatenation of a sequence of sequences.
RECURSIVE Flatten(_)
Flatten(ss) ==
    LET n == Len(ss)
    IN  IF n = 0 THEN <<>>
        ELSE IF n = 1 THEN ss[1]
        ELSE IF n = 2 THEN ss[1] \o ss[2]
        ELSE IF n = 3 THEN ss[1] \o ss[2] \o ss[3]
        ELSE LET m == n \div 2
             IN  Flatten(SubSeq(ss, 1, m)) \o Flatten(SubSeq(ss, m + 1, n))

\* s with the span that starts at each index of idx replaced: Width(i) elements
\* from index i on give way to Rep(i); everything between the spans is copied.
ReplaceSpans(s, idx, Width(_), Rep(_)) ==
    LET m == Cardinality(idx)
        at == [k \in 1..m |-> CHOOSE i \in idx : Cardinality({j \in idx : j < i}) = k - 1]
        from(k) == IF k = 1 THEN 1 ELSE at[k - 1] + Width(at[k - 1])
    IN  Flatten([k \in 1..m |-> SubSeq(s, from(k), at[k] - 1) \o Rep(at[k])])
        \o SubSeq(s, from(m + 1), Len(s))

Join(ss, sep) ==
    Flatten([i \in 1..Len(ss) |-> IF i = 1 THEN ss[i] ELSE sep \o ss[i]])

Spaces(n) == [i \in 1..n |-> 32]

(***************************************************************************)
(* The strings the program names, as code points.                          *)
(***************************************************************************)
KeyRole == <<114, 111, 108, 101>>           \* 'role'
KeyParts == <<112, 97, 114, 116, 115>>      \* 'parts'
RoleUser == <<117, 115, 101, 114>>          \* "user"
RoleModel == <<109, 111, 100, 101, 108>>    \* "model"

(***************************************************************************)
(* open(..., encoding='utf-8'): the codec.  Utf8Encode is total on the     *)
(* scalar values (no lone surrogates occur in the texts of the model).     *)
(***************************************************************************)
Utf8EncodeChar(c) ==
    IF c < 128 THEN <<c>>
    ELSE IF c < 2048 THEN <<192 + (c \div 64), 128 + (c % 64)>>
    ELSE IF c < 65536 THEN
        <<224 + (c \div 4096), 128 + ((c \div 64) % 64), 128 + (c % 64)>>
    ELSE <<240 + (c \div 262144), 128 + ((c \div 4096) % 64),
           128 + ((c \div 64) % 64), 128 + (c % 64)>>

\* ASCII characters are their own byte; every other character gives way to the
\* bytes of Utf8EncodeChar.
Utf8Encode(text) ==
    ReplaceSpans(text, {i \in 1..Len(text) : text[i] >= 128},
                 LAMBDA i : 1, LAMBDA i : Utf8EncodeChar(text[i]))

IsCont(b) == b >= 128 /\ b <= 191

\* The number of bytes of the character that starts at bytes[i], 0 when the
\* bytes there are not valid utf-8 (the strict decoder of Python).
Utf8Width(bytes, i) ==
    LET b == bytes[i]
        n == Len(bytes)
        c(k) == IF i + k <= n THEN bytes[i + k] ELSE 0
    IN  IF b < 128 THEN 1
        ELSE IF b >= 194 /\ b <= 223 THEN (IF IsCont(c(1)) THEN 2 ELSE 0)
        ELSE IF b >= 224 /\ b <= 239 THEN
            (IF /\ IsCont(c(1)) /\ IsCont(c(2))
                /\ (b = 224 => c(1) >= 160)
                /\ (b = 237 => c(1) <= 159)
             THEN 3 ELSE 0)
        ELSE IF b >= 240 /\ b <= 244 THEN
            (IF /\ IsCont(c(1)) /\ IsCont(c(2)) /\ IsCont(c(3))
                /\ (b = 240 => c(1) >= 144)
                /\ (b = 244 => c(1) <= 143)
             THEN 4 ELSE 0)
        ELSE 0

Utf8CodePoint(bytes, i, w) ==
    IF w = 1 THEN bytes[i]
    ELSE IF w = 2 THEN (bytes[i] - 192) * 64 + (bytes[i + 1] - 128)
    ELSE IF w = 3 THEN (bytes[i] - 224) * 4096 + (bytes[i + 1] - 128) * 64
                       + (bytes[i + 2] - 128)
    ELSE (bytes[i] - 240) * 262144 + (bytes[i + 1] - 128) * 4096
         + (bytes[i + 2] - 128) * 64 + (bytes[i + 3] - 128)

\* [ok, text]: ok is FALSE where Python raises UnicodeDecodeError.  The bytes
\* are valid when every byte that is no continuation byte starts a well-formed
\* character and every continuation byte belongs to one; the text is then the
\* code points of those characters in order.
Utf8Decode(bytes) ==
    LET n == Len(bytes)
        starts == {i \in 1..n : ~IsCont(bytes[i])}
        valid ==
            /\ n > 0 => 1 \in starts
            /\ \A i \in starts :
                  /\ Utf8Width(bytes, i) > 0
                  /\ i + Utf8Width(bytes, i) <= n => i + Utf8Width(bytes, i) \in starts
    IN  IF ~valid THEN [ok |-> FALSE, text |-> <<>>]
        ELSE [ok |-> TRUE,
              text |-> ReplaceSpans(bytes, {i \in starts : bytes[i] >= 128},
                          LAMBDA i : Utf8Width(bytes, i),
                          LAMBDA i : <<Utf8CodePoint(bytes, i, Utf8Width(bytes, i))>>)]

\* Text mode reading (newline=None): '\r\n' and '\r' are read as '\n'.
UniversalNewlines(text) ==
    ReplaceSpans(text, {i \in 1..Len(text) : text[i] = 13},
                 LAMBDA i : IF i < Len(text) /\ text[i + 1] = 10 THEN 2 ELSE 1,
                 LAMBDA i : <<10>>)


(***************************************************************************)
(* JSON values: [t, v] with t the type tag and v a sequence: the code      *)
(* points of a str, the items of a list, the <<key, value>> members of a   *)
(* dict, empty for None / True / False.                                    *)
(***************************************************************************)
JStr(text) == [t |-> "str", v |-> text]
JArr(items) == [t |-> "list", v |-> items]
JObj(members) == [t |-> "dict", v |-> members]
JLit(name) == [t |-> name, v |-> <<>>]

(***************************************************************************)
(* json.dump(obj, f, ensure_ascii=False, indent=4): the encoder.           *)
(***************************************************************************)
HexDigit(d) == IF d < 10 THEN 48 + d ELSE 87 + d

\* ESCAPE_DCT of json.encoder: only '"', '\' and the control characters are
\* escaped when ensure_ascii is False.
EscapeChar(c) ==
    IF c = 34 THEN <<92, 34>>
    ELSE IF c = 92 THEN <<92, 92>>
    ELSE IF c = 10 THEN <<92, 110>>
    ELSE IF c = 13 THEN <<92, 114>>
    ELSE IF c = 9 THEN <<92, 116>>
    ELSE IF c = 8 THEN <<92, 98>>
    ELSE IF c = 12 THEN <<92, 102>>
    ELSE IF c < 32 THEN <<92, 117, 48, 48, HexDigit(c \div 16), HexDigit(c % 16)>>
    ELSE <<c>>

EncodeString(text) ==
    <<34>> \o Flatten([i \in 1..Len(text) |-> EscapeChar(text[i])]) \o <<34>>

NewlineIndent(indent, level) == <<10>> \o Spaces(indent * level)

RECURSIVE EncodeValue(_, _, _)
EncodeValue(val, indent, level) ==
    IF val.t = "str" THEN EncodeString(val.v)
    ELSE IF val.t = "list" THEN
        IF val.v = <<>> THEN <<91, 93>>
        ELSE <<91>> \o NewlineIndent(indent, level + 1)
             \o Join([i \in 1..Len(val.v) |-> EncodeValue(val.v[i], indent, level + 1)],
                     <<44>> \o NewlineIndent(indent, level + 1))
             \o NewlineIndent(indent, level) \o <<93>>
    ELSE IF val.t = "dict" THEN
        IF val.v = <<>> THEN <<123, 125>>
        ELSE <<123>> \o NewlineIndent(indent, level + 1)
             \o Join([i \in 1..Len(val.v) |->
                        EncodeString(val.v[i][1]) \o <<58, 32>>
                        \o EncodeValue(val.v[i][2], indent, level + 1)],
                     <<44>> \o NewlineIndent(indent, level + 1))
             \o NewlineIndent(indent, level) \o <<125>>
    ELSE IF val.t = "None" THEN <<110, 117, 108, 108>>
    ELSE IF val.t = "True" THEN <<116, 114, 117, 101>>
    ELSE <<102, 97, 108, 115, 101>>

(***************************************************************************)
(* json.load(f): the decoder (json.decoder / json.scanner, strict mode).   *)
(* A parse result is [ok, val, pos]: ok is FALSE where Python raises       *)
(* JSONDecodeError, pos is the index after the value.  Numbers, NaN and    *)
(* Infinity are left out: no file of the model holds them outside a        *)
(* string.  A \uXXXX escape yields its code point (surrogate pairs, which  *)
(* the encoder above never writes, are not joined).                        *)
(***************************************************************************)
ParseFail == [ok |-> FALSE, val |-> JLit("None"), pos |-> 0]
ParseOk(val, pos) == [ok |-> TRUE, val |-> val, pos |-> pos]

IsWhitespace(c) == c \in {32, 9, 10, 13}

RECURSIVE SkipWhitespace(_, _)
SkipWhitespace(s, i) ==
    IF i <= Len(s) /\ IsWhitespace(s[i]) THEN SkipWhitespace(s, i + 1) ELSE i

IsHex(c) == (c >= 48 /\ c <= 57) \/ (c >= 97 /\ c <= 102) \/ (c >= 65 /\ c <= 70)
HexValue(c) == IF c <= 57 THEN c - 48 ELSE IF c >= 97 THEN c - 87 ELSE c - 55

\* BACKSLASH of json.decoder.
Unescape(c) ==
    IF c = 34 THEN 34 ELSE IF c = 92 THEN 92 ELSE IF c = 47 THEN 47
    ELSE IF c = 98 THEN 8 ELSE IF c = 102 THEN 12 ELSE IF c = 110 THEN 10
    ELSE IF c = 114 THEN 13 ELSE IF c = 116 THEN 9 ELSE 0 - 1

\* py_scanstring: i is the index after the opening quote.
RECURSIVE ScanString(_, _, _)
ScanString(s, i, acc) ==
    IF i > Len(s) THEN ParseFail                    \* unterminated string
    ELSE IF s[i] = 34 THEN ParseOk(JStr(acc), i + 1)
    ELSE IF s[i] = 92 THEN
        IF i + 1 > Len(s) THEN ParseFail
        ELSE IF s[i + 1] = 117 THEN
            IF /\ i + 5 <= Len(s)
               /\ \A k \in 2..5 : IsHex(s[i + k])
            THEN ScanString(s, i + 6,
                     Append(acc, HexValue(s[i + 2]) * 4096 + HexValue(s[i + 3]) * 256
                                 + HexValue(s[i + 4]) * 16 + HexValue(s[i + 5])))
            ELSE ParseFail
        ELSE IF Unescape(s[i + 1]) < 0 THEN ParseFail   \* invalid \escape
        ELSE ScanString(s, i + 2, Append(acc, Unescape(s[i + 1])))
    ELSE IF s[i] < 32 THEN ParseFail                 \* invalid control character
    ELSE ScanString(s, i + 1, Append(acc, s[i]))

StartsWith(s, i, word) ==
    /\ i + Len(word) - 1 <= Len(s)
    /\ \A k \in 1..Len(word) : s[i + k - 1] = word[k]

\* A dict keeps one member per key: a repeated key replaces the value.
PutMember(members, key, val) ==
    IF \E k \in 1..Len(members) : members[k][1] = key
    THEN [k \in 1..Len(members) |->
            IF members[k][1] = key THEN <<key, val>> ELSE members[k]]
    ELSE Append(members, <<key, val>>)

RECURSIVE ScanOnce(_, _)
RECURSIVE ScanArrayItems(_, _, _)
RECURSIVE ScanObjectMembers(_, _, _)

\* scan_once of json.scanner.
ScanOnce(s, i) ==
    IF i > Len(s) THEN ParseFail                    \* expecting value
    ELSE IF s[i] = 34 THEN ScanString(s, i + 1, <<>>)
    ELSE IF s[i] = 123 THEN
        LET j == SkipWhitespace(s, i + 1)
        IN  IF j <= Len(s) /\ s[j] = 125 THEN ParseOk(JObj(<<>>), j + 1)
            ELSE ScanObjectMembers(s, j, <<>>)
    ELSE IF s[i] = 91 THEN
        LET j == SkipWhitespace(s, i + 1)
        IN  IF j <= Len(s) /\ s[j] = 93 THEN ParseOk(JArr(<<>>), j + 1)
            ELSE ScanArrayItems(s, j, <<>>)
    ELSE IF StartsWith(s, i, <<110, 117, 108, 108>>) THEN ParseOk(JLit("None"), i + 4)
    ELSE IF StartsWith(s, i, <<116, 114, 117, 101>>) THEN ParseOk(JLit("True"), i + 4)
    ELSE IF StartsWith(s, i, <<102, 97, 108, 115, 101>>) THEN ParseOk(JLit("False"), i + 5)
    ELSE ParseFail

\* JSONArray: i is at the start of an item.
ScanArrayItems(s, i, acc) ==
    LET r == ScanOnce(s, i)
    IN  IF ~r.ok THEN ParseFail
        ELSE LET j == SkipWhitespace(s, r.pos)
                 items == Append(acc, r.val)
             IN  IF j > Len(s) THEN ParseFail
                 ELSE IF s[j] = 93 THEN ParseOk(JArr(items), j + 1)
                 ELSE IF s[j] = 44 THEN ScanArrayItems(s, SkipWhitespace(s, j + 1), items)
                 ELSE ParseFail                     \* expecting ',' delimiter

\* JSONObject: i is at the start of a member, which must be a quoted name.
ScanObjectMembers(s, i, acc) ==
    IF i > Len(s) \/ s[i] # 34 THEN ParseFail
    ELSE LET k == ScanString(s, i + 1, <<>>)
         IN  IF ~k.ok THEN ParseFail
             ELSE LET c == SkipWhitespace(s, k.pos)
                  IN  IF c > Len(s) \/ s[c] # 58 THEN ParseFail
                      ELSE LET r == ScanOnce(s, SkipWhitespace(s, c + 1))
                           IN  IF ~r.ok THEN ParseFail
                               ELSE LET j == SkipWhitespace(s, r.pos)
                                        members == PutMember(acc, k.val.v, r.val)
                                    IN  IF j > Len(s) THEN ParseFail
                                        ELSE IF s[j] = 125
                                             THEN ParseOk(JObj(members), j + 1)
                                        ELSE IF s[j] = 44
                                             THEN ScanObjectMembers(
                                                      s, SkipWhitespace(s, j + 1), members)
                                        ELSE ParseFail

\* JSONDecoder.decode: one value, whitespace around it, nothing after it.
JsonDecode(s) ==
    LET r == ScanOnce(s, SkipWhitespace(s, 1))
    IN  IF ~r.ok THEN ParseFail
        ELSE IF SkipWhitespace(s, r.pos) # Len(s) + 1 THEN ParseFail   \* extra data
        ELSE r


(***************************************************************************)
(* The history file: whether it exists, and its bytes.                     *)
(***************************************************************************)
File(bytes) == [exists |-> TRUE, bytes |-> bytes]
NoFile == [exists |-> FALSE, bytes |-> <<>>]

\* What the operating system does with one open(path, 'w') ... write ... close:
\* "ok"; "open_fails" (OSError before the file is touched); "write_fails"
\* (open has truncated the file, the buffered text is lost when the flush at
\* close fails, e.g. on a full disk).
IOOutcomes == {"ok", "open_fails", "write_fails"}

\* with open(self.history_file, 'w', encoding='utf-8') as f: <write text>
\* [file, raised]
WriteFile(f, text, io) ==
    IF io = "open_fails" THEN [file |-> f, raised |-> TRUE]
    ELSE IF io = "write_fails" THEN [file |-> File(<<>>), raised |-> TRUE]
    ELSE [file |-> File(Utf8Encode(text)), raised |-> FALSE]

(***************************************************************************)
(* ChatHistoryManager.                                                     *)
(***************************************************************************)
JsonIndent == 4

\* A turn of a session transcript (a Content of the library): its role and the
\* texts of its parts.
Content(role, parts) == [role |-> role, parts |-> parts]

\* serializable_history keeping only the first part of every turn.
SerializableFirstPart(history) ==
    JArr([i \in 1..Len(history) |->
            JObj(<< <<KeyRole, JStr(history[i].role)>>,
                    <<KeyParts, JArr([j \in 1..(IF history[i].parts = <<>> THEN 0 ELSE 1) |->
                                        JStr(history[i].parts[j])])>> >>)])

\* serializable_history of save.
SerializableHistory(history) ==
    JArr([i \in 1..Len(history) |->
            JObj(<< <<KeyRole, JStr(history[i].role)>>,
                    <<KeyParts, JArr([j \in 1..Len(history[i].parts) |->
                                        JStr(history[i].parts[j])])>> >>)])

\* save without its guard on the empty history.
SaveAlways(f, history, io) ==
    WriteFile(f, EncodeValue(SerializableHistory(history), JsonIndent, 0), io)

\* ChatHistoryManager.save: [file, raised]
save(f, history, io) ==
    IF history = <<>> THEN [file |-> f, raised |-> FALSE]
    ELSE WriteFile(f, EncodeValue(SerializableHistory(history), JsonIndent, 0), io)

\* ChatHistoryManager.load: [raised, val].  raised is TRUE where an exception
\* leaves load: the UnicodeDecodeError of f.read() is neither of the two
\* classes the except clause names.
load(f) ==
    IF ~f.exists THEN [raised |-> FALSE, val |-> JArr(<<>>)]
    ELSE LET d == Utf8Decode(f.bytes)
         IN  IF ~d.ok THEN [raised |-> TRUE, val |-> JLit("None")]
             ELSE LET r == JsonDecode(UniversalNewlines(d.text))
                  IN  IF ~r.ok THEN [raised |-> FALSE, val |-> JArr(<<>>)]
                      ELSE [raised |-> FALSE, val |-> r.val]

\* clear with the file opened in mode 'a' instead of 'w'.
clear_appends(f, io) ==
    IF io = "ok"
    THEN [file |-> File((IF f.exists THEN f.bytes ELSE <<>>) \o <<91, 93>>),
          raised |-> FALSE]
    ELSE [file |-> f, raised |-> TRUE]

\* ChatHistoryManager.clear: [file, raised]
clear(f, io) == WriteFile(f, <<91, 93>>, io)


(***************************************************************************)
(* State.                                                                  *)
(***************************************************************************)
VARIABLES
    file,        \* the history file of ChatHistoryManager.history_file
    sessions,    \* the chat session objects created so far: their transcripts
    chat,        \* GeminiChatService.chat: an index into sessions, 0 for None
    workers,     \* the threads started by ChatController.send_message
    inputState,  \* the last gui.set_input_state argument
    closed,      \* on_closing has been called
    ret,         \* the last call made on the history manager directly
    st           \* the Streamlit front-end: its widgets, st.session_state, os.environ

vars == <<file, sessions, chat, workers, inputState, closed, ret, st>>

(***************************************************************************)
(* Inputs.                                                                 *)
(***************************************************************************)
\* The text the user sends: non-ASCII, with a character json must escape.
UserTexts == {<<20320, 34>>}
\* A non-ASCII chunk with a backslash.
ChunkTexts == {<<22909, 92>>}

\* The transcript an earlier run has saved.
SavedTranscript ==
    <<Content(RoleUser, <<<<20320, 22909>>>>), Content(RoleModel, <<<<98, 34>>>>)>>

SavedBytes == Utf8Encode(EncodeValue(SerializableHistory(SavedTranscript), JsonIndent, 0))

\* A history file with a single user turn (it alternates, and a user turn is
\* its last), and one with two user turns in a row.
OneUserTranscript == <<Content(RoleUser, <<<<20320>>>>)>>
TwoUserTranscript ==
    <<Content(RoleUser, <<<<20320>>>>), Content(RoleUser, <<<<22909>>>>)>>

OneUserBytes ==
    Utf8Encode(EncodeValue(SerializableHistory(OneUserTranscript), JsonIndent, 0))
TwoUserBytes ==
    Utf8Encode(EncodeValue(SerializableHistory(TwoUserTranscript), JsonIndent, 0))

\* The history file when the program starts: absent (first run), cleared,
\* saved by an earlier run, cut short by a crash during a write, not utf-8,
\* and JSON that is no list of turn records.
StartFiles == {NoFile, File(SavedBytes), File(<<123, 125>>)}

\* History files that did not come from a save of this program.
SeedFiles == {File(OneUserBytes), File(TwoUserBytes)}

InitFiles ==
    { NoFile,
      File(<<91, 93>>),
      File(SavedBytes),
      File(SubSeq(SavedBytes, 1, Len(SavedBytes) \div 2)),
      File(<<255, 254>>),
      File(<<123, 125>>) }

(***************************************************************************)
(* GeminiChatService.                                                      *)
(***************************************************************************)
\* get_history: self.chat.history if self.chat else []
get_history == IF chat # 0 THEN sessions[chat] ELSE <<>>

HasMember(val, key) == \E k \in 1..Len(val.v) : val.v[k][1] = key
Member(val, key) == (CHOOSE k \in 1..Len(val.v) : val.v[k][1] = key)

\* A value load returns is a list of {'role': str, 'parts': [str, ...]}.
IsTurnRecord(val) ==
    /\ val.t = "dict"
    /\ Len(val.v) = 2
    /\ HasMember(val, KeyRole) /\ HasMember(val, KeyParts)
    /\ val.v[Member(val, KeyRole)][2].t = "str"
    /\ LET ps == val.v[Member(val, KeyParts)][2]
       IN  ps.t = "list" /\ \A j \in 1..Len(ps.v) : ps.v[j].t = "str"

IsTurnList(val) == val.t = "list" /\ \A i \in 1..Len(val.v) : IsTurnRecord(val.v[i])

\* The transcript the session is seeded with from such a list.
ToContents(val) ==
    [i \in 1..Len(val.v) |->
        LET rec == val.v[i]
            ps == rec.v[Member(rec, KeyParts)][2]
        IN  Content(rec.v[Member(rec, KeyRole)][2].v,
                    [j \in 1..Len(ps.v) |-> ps.v[j].v])]

WorkerIds == 1..MaxWorkers

NoWorker ==
    [pc |-> "unused", text |-> <<>>, chat |-> 0, received |-> <<>>,
     exc |-> "", error |-> "", partial |-> FALSE]

NoRet == [op |-> "none", arg |-> <<>>, raised |-> FALSE, val |-> JLit("None")]

\* The turns and transcripts handed to ChatHistoryManager.save directly:
\* non-ASCII text, the characters json escapes ('"', '\', newline), a turn of
\* two parts of which one is the empty text, a turn without parts.
StoreContents ==
    { Content(RoleUser, <<<<20320, 22909, 34, 92, 10>>>>),
      Content(RoleModel, <<<<>>, <<19990, 97>>>>),
      Content(RoleUser, <<>>) }

Transcripts == UNION {[1..k -> StoreContents] : k \in 0..MaxTurns}

InitRest ==
    /\ sessions = <<>>
    /\ chat = 0
    /\ workers = [w \in WorkerIds |-> NoWorker]
    /\ inputState = "normal"
    /\ closed = FALSE
    /\ ret = NoRet

\* No Streamlit script runs beside the controller.
NoScript == [app |-> "none"]

Init == file \in StartFiles /\ InitRest /\ st = NoScript

\* A worker is in flight from Thread.start() until _get_response has returned.
InFlight(w) == workers[w].pc \in {"started", "streaming"}

\* start_chat: self.chat = self.model.start_chat(history=history), a new session
\* object; the transcripts of the earlier objects stay as they are.
start_chat(history) ==
    /\ sessions' = Append(sessions, history)
    /\ chat' = Len(sessions) + 1


(***************************************************************************)
(* ChatController, on the thread of the presentation layer.                *)
(***************************************************************************)
\* start_application: load, start_chat, then display every turn.  An exception
\* of load, or of the session start on a value that is no list of turn
\* records, leaves the method before self.chat is assigned.
start_application ==
    /\ ~closed
    /\ Len(sessions) < MaxStarts
    /\ LET h == load(file)
       IN  IF h.raised \/ ~IsTurnList(h.val)
           THEN UNCHANGED <<sessions, chat>>
           ELSE start_chat(ToContents(h.val))
    /\ UNCHANGED <<file, workers, inputState, closed, ret, st>>

\* send_message: display the text, disable the input, start the thread that
\* runs _get_response.
send_message(user_text) ==
    /\ ~closed
    /\ \E w \in WorkerIds :
        /\ workers[w].pc = "unused"
        /\ \A v \in WorkerIds : v < w => workers[v].pc # "unused"
        /\ workers' = [workers EXCEPT
                          ![w] = [NoWorker EXCEPT !.pc = "started", !.text = user_text]]
    /\ inputState' = "disabled"
    /\ UNCHANGED <<file, sessions, chat, closed, ret, st>>

\* clear_history: history_manager.clear(), then start_chat(history=[]).
clear_history(io) ==
    /\ ~closed
    /\ Len(sessions) < MaxStarts
    /\ LET c == clear(file, io)
       IN  /\ file' = c.file
           /\ IF c.raised THEN UNCHANGED <<sessions, chat>> ELSE start_chat(<<>>)
    /\ UNCHANGED <<workers, inputState, closed, ret, st>>

\* on_closing: history_manager.save(chat_service.get_history()).  The window
\* is gone afterwards: the presentation layer makes no further calls.
on_closing(io) ==
    /\ ~closed
    /\ file' = save(file, get_history, io).file
    /\ closed' = TRUE
    /\ UNCHANGED <<sessions, chat, workers, inputState, ret, st>>

(***************************************************************************)
(* _get_response, on the worker thread.  A step of the thread runs from    *)
(* one wait on the network to the next: the except clause and the finally  *)
(* block run in the step in which the stream ends or raises.               *)
(***************************************************************************)
\* The exception classes that reach the except clauses, and their bases.
StreamErrors == {"ResourceExhausted", "ServiceUnavailable"}
Bases(cls) ==
    IF cls \in StreamErrors THEN {cls, "GoogleAPICallError", "Exception"}
    ELSE {cls, "Exception"}

\* The except clauses without the second one.
ExceptOnlyRateLimit(cls) ==
    IF "ResourceExhausted" \in Bases(cls) THEN "rate_limit" ELSE ""

\* The except clauses in their order: the message gui.show_error gets, "" when
\* no clause matches.
ExceptClause(cls) ==
    IF "ResourceExhausted" \in Bases(cls) THEN "rate_limit"
    ELSE IF "Exception" \in Bases(cls) THEN "generic"
    ELSE ""

\* The end of _get_response with the re-enabling at the end of the try block
\* instead of in a finally block.
end_without_finally(w, cls) ==
    /\ workers' = [workers EXCEPT ![w] =
          [NoWorker EXCEPT
              !.pc = IF cls # "" /\ ExceptClause(cls) = "" THEN "crashed" ELSE "done",
              !.exc = cls,
              !.error = IF cls = "" THEN "" ELSE ExceptClause(cls),
              !.partial = (cls # "" /\ workers[w].received # <<>>)]]
    /\ inputState' = IF cls = "" THEN "normal" ELSE inputState

\* The end of _get_response for an exchange that raised cls ("" when the try
\* block ended normally): the matching except clause shows its message, the
\* finally block re-enables the input, and an exception no clause caught
\* leaves the thread.  What stays of the thread is its outcome: the exception
\* (exc), the message shown (error), and whether chunks had been delivered
\* when it was raised (partial).
end_of_get_response(w, cls) ==
    /\ workers' = [workers EXCEPT ![w] =
          [NoWorker EXCEPT
              !.pc = IF cls # "" /\ ExceptClause(cls) = "" THEN "crashed" ELSE "done",
              !.exc = cls,
              !.error = IF cls = "" THEN "" ELSE ExceptClause(cls),
              !.partial = (cls # "" /\ workers[w].received # <<>>)]]
    /\ inputState' = "normal"

\* The call without the check of GeminiChatService.send_message on self.chat:
\* None has no send_message.
get_response_call_unchecked(w) ==
    /\ workers[w].pc = "started"
    /\ IF chat = 0
       THEN end_of_get_response(w, "AttributeError")
       ELSE /\ workers' = [workers EXCEPT ![w].pc = "streaming", ![w].chat = chat]
            /\ UNCHANGED inputState
    /\ UNCHANGED <<file, sessions, chat, closed, ret, st>>

\* response_stream = self.chat_service.send_message(user_text, stream=True):
\* RuntimeError when no session has been started, else the stream of the
\* session object that self.chat names at this moment.
get_response_call(w) ==
    /\ workers[w].pc = "started"
    /\ IF chat = 0
       THEN end_of_get_response(w, "RuntimeError")
       ELSE /\ workers' = [workers EXCEPT ![w].pc = "streaming", ![w].chat = chat]
            /\ UNCHANGED inputState
    /\ UNCHANGED <<file, sessions, chat, closed, ret, st>>

\* gui.stream_ai_response(response_stream) takes one more chunk.
stream_chunk(w, chunk) ==
    /\ workers[w].pc = "streaming"
    /\ Len(workers[w].received) < MaxChunks
    /\ workers' = [workers EXCEPT ![w].received = Append(@, chunk)]
    /\ UNCHANGED <<file, sessions, chat, inputState, closed, ret, st>>

\* The stream is exhausted: the session object appends the user turn and the
\* model turn (the text of the chunks), and the try block ends.
stream_end(w) ==
    /\ workers[w].pc = "streaming"
    /\ sessions' = [sessions EXCEPT ![workers[w].chat] =
          @ \o <<Content(RoleUser, <<workers[w].text>>),
                 Content(RoleModel, <<Flatten(workers[w].received)>>)>>]
    /\ end_of_get_response(w, "")
    /\ UNCHANGED <<file, chat, closed, ret, st>>

\* The except clause keeping what has arrived: the user turn and the truncated
\* model turn are appended to the transcript.
stream_raise_keeps_partial(w, cls) ==
    /\ workers[w].pc = "streaming"
    /\ sessions' = [sessions EXCEPT ![workers[w].chat] =
          @ \o <<Content(RoleUser, <<workers[w].text>>),
                 Content(RoleModel, <<Flatten(workers[w].received)>>)>>]
    /\ end_of_get_response(w, cls)
    /\ UNCHANGED <<file, chat, closed, ret, st>>

\* The stream raises while it is consumed: the session object appends nothing.
stream_raise(w, cls) ==
    /\ workers[w].pc = "streaming"
    /\ end_of_get_response(w, cls)
    /\ UNCHANGED <<file, sessions, chat, closed, ret, st>>

Worker(w) ==
    \/ get_response_call(w)
    \/ \E chunk \in ChunkTexts : stream_chunk(w, chunk)
    \/ stream_end(w)
    \/ \E cls \in StreamErrors : stream_raise(w, cls)

Next ==
    \/ start_application
    \/ \E user_text \in UserTexts : send_message(user_text)
    \/ \E io \in IOOutcomes : clear_history(io)
    \/ \E io \in IOOutcomes : on_closing(io)
    \/ \E w \in WorkerIds : Worker(w)

Spec == Init /\ [][Next]_vars

\* The worker threads are not daemon threads: each runs on until
\* _get_response returns, and a stream delivers finitely many chunks.  The
\* threads never read the history file: the fair behaviours are taken from the
\* first run, without a file.
FairInit == file = NoFile /\ InitRest /\ st = NoScript
FairSpec == FairInit /\ [][Next]_vars /\ \A w \in WorkerIds : WF_vars(Worker(w))

\* The controller started on a history file of SeedFiles.
SeedInit == file \in SeedFiles /\ InitRest /\ st = NoScript
SeedSpec == SeedInit /\ [][Next]_vars

(***************************************************************************)
(* ChatHistoryManager used on its own: any sequence of load, save and      *)
(* clear calls on any of the files above.                                  *)
(***************************************************************************)
Ret(op, arg, raised, val) == [op |-> op, arg |-> arg, raised |-> raised, val |-> val]

call_load ==
    /\ LET r == load(file) IN ret' = Ret("load", <<>>, r.raised, r.val)
    /\ UNCHANGED <<file, sessions, chat, workers, inputState, closed, st>>

call_save(history, io) ==
    /\ LET r == save(file, history, io)
       IN  /\ file' = r.file
           /\ ret' = Ret("save", history, r.raised, JLit("None"))
    /\ UNCHANGED <<sessions, chat, workers, inputState, closed, st>>

call_clear(io) ==
    /\ LET r == clear(file, io)
       IN  /\ file' = r.file
           /\ ret' = Ret("clear", <<>>, r.raised, JLit("None"))
    /\ UNCHANGED <<sessions, chat, workers, inputState, closed, st>>

StoreInit == file \in InitFiles /\ InitRest /\ st = NoScript

StoreNext ==
    \/ call_load
    \/ \E history \in Transcripts, io \in IOOutcomes : call_save(history, io)
    \/ \E io \in IOOutcomes : call_clear(io)

StoreSpec == StoreInit /\ [][StoreNext]_vars

(***************************************************************************)
(* The Streamlit front-ends ChatBot_beta.py and TTS_beta/ChatBot_TTS.py.   *)
(* Streamlit runs the script from its first line on every event of the     *)
(* page; st.session_state and os.environ outlive a run, the widgets hand   *)
(* the run their current values, and a button is True only in the run its  *)
(* click has caused.  st (the variable) holds                              *)
(*   app                "beta" or "tts"                                    *)
(*   environ            os.environ["GOOGLE_API_KEY"], <<>> when not set    *)
(*   api_key_input      the text of the key field                          *)
(*   selected_model     the choice of the select box                       *)
(*   session_state      st.session_state, a function from its keys         *)
(*   run                what the last run has done                         *)
(***************************************************************************)
MaxPrompts == 1     \* prompts whose turns st.session_state.messages holds at most

None == [some |-> FALSE, v |-> <<>>]
Some(x) == [some |-> TRUE, v |-> x]
\* The truth value Python gives an optional string.
Truthy(opt) == opt.some /\ opt.v # <<>>

\* st.session_state.get(key), and an assignment to st.session_state[key].
Get(ss, key) == IF key \in DOMAIN ss THEN Some(ss[key]) ELSE None
Put(ss, key, val) == [k \in DOMAIN ss \cup {key} |-> IF k = key THEN val ELSE ss[k]]
EmptyState == [k \in {} |-> None]

\* str.strip(): the whitespace of both ends goes.
PyWhitespace == {9, 10, 11, 12, 13, 28, 29, 30, 31, 32, 133, 160}
Strip(s) ==
    LET keep == {i \in 1..Len(s) : s[i] \notin PyWhitespace}
    IN  IF keep = {} THEN <<>>
        ELSE SubSeq(s, CHOOSE i \in keep : \A j \in keep : i <= j,
                       CHOOSE i \in keep : \A j \in keep : j <= i)

\* model_options of the two scripts.
model_options(app) ==
    IF app = "beta"
    THEN <<"gemini-2.5-flash", "gemini-2.5-flash-lite", "gemini-2.5-flash-tts", "gemini-3-flash">>
    ELSE <<"gemini-2.5-flash-tts">>

ModelNames == {model_options("beta")[i] : i \in 1..Len(model_options("beta"))}

\* The strings typed into the key field: a key the remote service accepts, the
\* same key with a blank after it, and a key it rejects.
KeyTexts == {<<103>>, <<103, 32>>, <<98>>}
ValidKeys == {<<103>>, <<101>>}
\* GOOGLE_API_KEY in the environment of the process: not set, or a key.
EnvKeys == {<<>>, <<101>>}

\* What a run has done: called genai.list_models, built a GeminiChatService,
\* called its send_message, and the exception the exchange has raised.
NoRun == [listed |-> FALSE, built |-> FALSE, sent |-> FALSE, failed |-> ""]

\* The events of the page.  list_models_ok: the remote service answers the
\* validation call (it never does for a key outside ValidKeys); outcome and
\* chunks: how the exchange of the prompt ends and how many chunks it delivers
\* (at least one, unless the call itself raises).
NoEvent ==
    [submit_btn |-> FALSE, clear_records |-> FALSE, prompt |-> None,
     list_models_ok |-> TRUE, outcome |-> "ok", chunks |-> 0]
Outcomes == {"ok", "raise_at_call", "raise_mid_stream"}

\* GeminiChatService.__init__: [raised, service]; the service is its model
\* name, the key it was configured with, and self.chat (None, or the
\* transcript of the session).
GeminiChatService(model_name, api_key, environ) ==
    LET key == IF Truthy(api_key) THEN api_key.v ELSE environ
    IN  IF key = <<>>
        THEN [raised |-> TRUE, service |-> None]
        ELSE [raised |-> FALSE,
              service |-> [model_name |-> model_name, api_key |-> key, chat |-> None]]

\* GeminiChatService.start_chat on a service held in st.session_state.
service_start_chat(service, history) == [service EXCEPT !.chat = Some(history)]

\* One statement after another: F of the value of v.
Then(v, F(_)) == CHOOSE r \in {F(x) : x \in {v}} : TRUE

\* ChatBot_beta.py, the sidebar: key_valid and last_checked_key get their
\* first values when st.session_state does not hold them.
validation_state(ss) ==
    LET a == IF "key_valid" \in DOMAIN ss THEN ss ELSE Put(ss, "key_valid", FALSE)
    IN  IF "last_checked_key" \in DOMAIN a THEN a ELSE Put(a, "last_checked_key", None)

\* The condition of the validation without the comparison with the key
\* checked last.
validation_due_uncached(ss, api_key, submit_btn) == submit_btn \/ api_key # <<>>

\* The condition of the validation: the button, or a text in the key field
\* other than the one checked last.
validation_due(ss, api_key, submit_btn) ==
    submit_btn \/ (api_key # <<>> /\ Some(api_key) # ss["last_checked_key"])

\* The validation: genai.configure and genai.list_models inside the try block.
validation(ss, api_key, list_models_ok) ==
    IF list_models_ok /\ Strip(api_key) \in ValidKeys
    THEN Put(Put(Put(ss, "last_checked_key", Some(api_key)), "key_valid", TRUE),
             "api_key", Strip(api_key))
    ELSE Put(Put(ss, "last_checked_key", Some(api_key)), "key_valid", FALSE)

\* The key of a valid field is kept when st.session_state holds none.
keep_api_key(ss, api_key) ==
    IF ss["key_valid"] /\ api_key # <<>> /\ "api_key" \notin DOMAIN ss
    THEN Put(ss, "api_key", Strip(api_key))
    ELSE ss

\* The credential validation block of ChatBot_beta.py.
credential_validation(s, ev) ==
    Then(validation_state(s.session_state), LAMBDA ss :
        IF validation_due(ss, s.api_key_input, ev.submit_btn)
        THEN Then(validation(ss, s.api_key_input, ev.list_models_ok), LAMBDA checked :
                [s EXCEPT !.session_state = keep_api_key(checked, s.api_key_input),
                          !.run = [@ EXCEPT !.listed = TRUE]])
        ELSE [s EXCEPT !.session_state = keep_api_key(ss, s.api_key_input)])

\* ChatBot_TTS.py, the sidebar: a key typed into the field goes to os.environ.
environ_from_input(s) ==
    IF s.api_key_input # <<>> THEN [s EXCEPT !.environ = Strip(s.api_key_input)] ELSE s

\* The gate before the chat page: TRUE when the script ends at st.stop().
credential_gate(s) ==
    IF s.app = "beta"
    THEN s.environ = <<>> /\ ~Truthy(Get(s.session_state, "api_key"))
    ELSE s.environ = <<>>

\* The prompt handling block: the user turn is appended to messages, then the
\* exchange runs inside the try block.  Every chunk of the library has a text;
\* what the placeholder shows, and the audio of ChatBot_TTS.py (its own try
\* block), leave the session state as it is.
prompt_handling(s, ev) ==
    LET ss == s.session_state
        prompt == ev.prompt.v
        shown == Append(ss["messages"], [role |-> RoleUser, content |-> prompt])
        service == ss["chat_service"]
        full_response == Flatten([i \in 1..ev.chunks |-> CHOOSE c \in ChunkTexts : TRUE])
    IN  IF ~service.chat.some
        THEN [s EXCEPT !.session_state = Put(ss, "messages", shown),
                       !.run = [@ EXCEPT !.sent = TRUE, !.failed = "RuntimeError"]]
        ELSE IF ev.outcome # "ok"
        THEN [s EXCEPT !.session_state = Put(ss, "messages", shown),
                       !.run = [@ EXCEPT !.sent = TRUE, !.failed = ev.outcome]]
        ELSE [s EXCEPT
                !.session_state =
                    Put(Put(ss, "messages",
                            Append(shown, [role |-> RoleModel, content |-> full_response])),
                        "chat_service",
                        service_start_chat(service,
                            service.chat.v \o <<Content(RoleUser, <<prompt>>),
                                                Content(RoleModel, <<full_response>>)>>)),
                !.run = [@ EXCEPT !.sent = TRUE]]

\* The service is built when st.session_state holds none or when the model
\* has changed; it starts a chat with no history.  [s, raised]
service_initialisation(s) ==
    LET ss == s.session_state
        made == GeminiChatService(s.selected_model,
                                  IF s.app = "beta" THEN Get(ss, "api_key") ELSE None,
                                  s.environ)
    IN  IF "chat_service" \in DOMAIN ss /\ Get(ss, "current_model") = Some(s.selected_model)
        THEN [s |-> s, raised |-> FALSE]
        ELSE IF made.raised
        THEN [s |-> [s EXCEPT !.session_state = Put(ss, "current_model", s.selected_model),
                              !.run = [@ EXCEPT !.built = TRUE]],
              raised |-> TRUE]
        ELSE [s |-> [s EXCEPT !.session_state =
                                Put(Put(ss, "current_model", s.selected_model),
                                    "chat_service", service_start_chat(made.service, <<>>)),
                              !.run = [@ EXCEPT !.built = TRUE]],
              raised |-> FALSE]

\* messages is initialised, with another start_chat.
messages_initialisation(s) ==
    LET ss == s.session_state
    IN  IF "messages" \in DOMAIN ss THEN s
        ELSE [s EXCEPT !.session_state =
                Put(Put(ss, "messages", <<>>),
                    "chat_service", service_start_chat(ss["chat_service"], <<>>))]

\* The button that clears the records.
clear_records(s) ==
    LET ss == s.session_state
    IN  [s EXCEPT !.session_state =
            Put(Put(ss, "messages", <<>>),
                "chat_service", service_start_chat(ss["chat_service"], <<>>))]

\* The chat page after the gate.  [s, rerun]: rerun where the script has
\* called st.rerun().
chat_page(s, ev) ==
    Then(service_initialisation(s), LAMBDA built :
        IF built.raised THEN [s |-> built.s, rerun |-> FALSE]
        ELSE Then(messages_initialisation(built.s), LAMBDA ready :
                IF ev.clear_records THEN [s |-> clear_records(ready), rerun |-> TRUE]
                ELSE IF ev.prompt.some
                THEN [s |-> prompt_handling(ready, ev), rerun |-> FALSE]
                ELSE [s |-> ready, rerun |-> FALSE]))

\* One run of the script, from its first line to its end, to st.stop() or to
\* st.rerun().
script_run(s, ev) ==
    Then(IF s.app = "beta"
         THEN credential_validation([s EXCEPT !.run = NoRun], ev)
         ELSE environ_from_input([s EXCEPT !.run = NoRun]),
         LAMBDA sidebar :
            IF credential_gate(sidebar) THEN [s |-> sidebar, rerun |-> FALSE]
            ELSE chat_page(sidebar, ev))

\* The run an event causes, and the run st.rerun() starts right after it (no
\* widget has an event in that one); what is told of the two runs is what
\* either has done.
page_event(s, ev) ==
    Then(s, LAMBDA s0 : Then(script_run(s0, ev), LAMBDA first :
        IF ~first.rerun THEN first.s
        ELSE Then(script_run(first.s, NoEvent).s, LAMBDA second :
                [second EXCEPT !.run =
                    [listed |-> first.s.run.listed \/ second.run.listed,
                     built |-> first.s.run.built \/ second.run.built,
                     sent |-> first.s.run.sent \/ second.run.sent,
                     failed |-> second.run.failed]])))

FrontUnchanged == UNCHANGED <<file, sessions, chat, workers, inputState, closed, ret>>

\* The key field gets a text.
enter_key(text, ok) ==
    /\ st' = page_event([st EXCEPT !.api_key_input = text],
                        [NoEvent EXCEPT !.list_models_ok = ok])
    /\ FrontUnchanged

\* The button beside the key field of ChatBot_beta.py.
press_submit(ok) ==
    /\ st.app = "beta"
    /\ st' = page_event(st, [NoEvent EXCEPT !.submit_btn = TRUE, !.list_models_ok = ok])
    /\ FrontUnchanged

\* The button that clears the key, ChatBot_beta.py: st.session_state.clear(),
\* then the assignment to the key of the key field.  Streamlit refuses an
\* assignment to the key of a widget the run has already placed: either the
\* run ends there with the field as it was, or the field is emptied and
\* st.rerun() runs the script.
press_clear_key(refused) ==
    /\ st.app = "beta"
    /\ LET cleared == [st EXCEPT !.session_state = EmptyState, !.run = NoRun]
       IN  st' = IF refused THEN cleared
                 ELSE script_run([cleared EXCEPT !.api_key_input = <<>>], NoEvent).s
    /\ FrontUnchanged

\* The select box gets another model of model_options.
select_model(m) ==
    /\ \E i \in 1..Len(model_options(st.app)) : model_options(st.app)[i] = m
    /\ m # st.selected_model
    /\ st' = page_event([st EXCEPT !.selected_model = m], NoEvent)
    /\ FrontUnchanged

\* The button that clears the records; the chat page shows it.
press_clear_records ==
    /\ "messages" \in DOMAIN st.session_state
    /\ st' = page_event(st, [NoEvent EXCEPT !.clear_records = TRUE])
    /\ FrontUnchanged

\* A prompt is sent from the chat input; the chat page shows it.
submit_prompt(prompt, outcome, chunks) ==
    /\ "messages" \in DOMAIN st.session_state
    /\ Len(st.session_state["messages"]) < 2 * MaxPrompts
    /\ chunks = 0 <=> outcome = "raise_at_call"
    /\ st' = page_event(st, [NoEvent EXCEPT !.prompt = Some(prompt),
                                            !.outcome = outcome, !.chunks = chunks])
    /\ FrontUnchanged

FrontStart(app, environ) ==
    [app |-> app, environ |-> environ, api_key_input |-> <<>>,
     selected_model |-> model_options(app)[1], session_state |-> EmptyState,
     run |-> NoRun]

\* The page is opened: the first run of the script, before any event.
FrontInit ==
    /\ file = NoFile /\ InitRest
    /\ \E app \in {"beta", "tts"}, environ \in EnvKeys :
          st = page_event(FrontStart(app, environ), NoEvent)

FrontNext ==
    \/ \E text \in KeyTexts \cup {<<>>}, ok \in BOOLEAN : enter_key(text, ok)
    \/ \E ok \in BOOLEAN : press_submit(ok)
    \/ \E refused \in BOOLEAN : press_clear_key(refused)
    \/ \E m \in ModelNames : select_model(m)
    \/ press_clear_records
    \/ \E prompt \in UserTexts, outcome \in Outcomes, chunks \in 0..MaxChunks :
          submit_prompt(prompt, outcome, chunks)

FrontSpec == FrontInit /\ [][FrontNext]_vars

(***************************************************************************)
(* Properties.                                                             *)
(***************************************************************************)
\* The transcript a file holds: what load returns from it, when that is a list
\* of turn records.
HoldsTranscript(f) == ~load(f).raised /\ IsTurnList(load(f).val)
TranscriptOf(f) == ToContents(load(f).val)

\* C1: no two workers are at the same time inside the exchange (the call of
\* chat_service.send_message made, the stream not yet ended) of one session:
\* a second send_message during the first is rejected or queued.
C1_SingleFlight ==
    \A w1, w2 \in WorkerIds :
        (w1 # w2 /\ workers[w1].pc = "streaming" /\ workers[w2].pc = "streaming")
            => workers[w1].chat # workers[w2].chat

C3_RoundTrip ==
    (ret.op = "save" /\ ~ret.raised /\ ret.arg # <<>>)
        => (HoldsTranscript(file) /\ TranscriptOf(file) = ret.arg)

C3_Witness ==
    /\ ret.op = "save" /\ ~ret.raised /\ Len(ret.arg) = 2
    /\ ret.arg[1] # ret.arg[2]
    /\ \E i \in 1..2 : \E j \in 1..Len(ret.arg[i].parts) :
          \E k \in 1..Len(ret.arg[i].parts[j]) : ret.arg[i].parts[j][k] > 127
    /\ HoldsTranscript(file) /\ TranscriptOf(file) = ret.arg

\* C4: every send_message is eventually followed by the end of its worker with
\* gui.set_input_state("normal"), whether the exchange succeeds or fails.
C4_InputReenabled ==
    \A w \in WorkerIds :
        (workers[w].pc = "started")
            ~> (workers[w].pc = "done" /\ inputState = "normal")

C4_Witness ==
    /\ inputState = "normal"
    /\ \E w1, w2 \in WorkerIds :
          /\ workers[w1].pc = "done" /\ workers[w1].exc = ""
          /\ workers[w2].pc = "done" /\ workers[w2].exc # ""

\* C5: every exception of chat_service.send_message or of the stream is caught
\* in the worker and shown with gui.show_error, the rate-limit message for
\* ResourceExhausted and the generic message for any other; none leaves the
\* worker.
C5_ErrorsShown ==
    \A w \in WorkerIds :
        /\ workers[w].pc # "crashed"
        /\ (workers[w].pc = "done" /\ workers[w].exc # "")
              => workers[w].error = (IF workers[w].exc = "ResourceExhausted"
                                     THEN "rate_limit" ELSE "generic")

C5_Witness ==
    \E w1, w2 \in WorkerIds :
        /\ workers[w1].pc = "done" /\ workers[w1].exc = "ResourceExhausted"
        /\ workers[w1].error = "rate_limit"
        /\ workers[w2].pc = "done" /\ workers[w2].exc \in {"RuntimeError", "ServiceUnavailable"}
        /\ workers[w2].error = "generic"

\* C6: clear_history is atomic for its caller: after it has returned or raised,
\* either the file holds "[]" and the transcript of the session is empty, or
\* neither the file nor the session has changed.
C6_ClearHistoryAtomic ==
    [][(\E io \in IOOutcomes : clear_history(io))
          => \/ (file' = File(<<91, 93>>) /\ chat' # 0 /\ sessions'[chat'] = <<>>)
             \/ (file' = file /\ sessions' = sessions /\ chat' = chat)]_vars

\* C7: load never raises, and returns the empty list when the file is absent
\* or holds anything but a list of turn records (cut short, garbled, other
\* JSON).
C7_LoadFallsBack ==
    ret.op = "load"
        => /\ ~ret.raised
           /\ ~HoldsTranscript(file) => ret.val = JArr(<<>>)

\* C8: from any state, on_closing saves the current transcript so that load
\* returns it, and after on_closing neither the session nor the presentation
\* layer is updated any more.
C8_ClosingIsFinal ==
    [][/\ (\E io \in IOOutcomes : on_closing(io))
            => (HoldsTranscript(file') /\ TranscriptOf(file') = get_history)
       /\ closed => (sessions' = sessions /\ inputState' = inputState)]_vars

\* C9: no start_chat (of start_application or clear_history) runs while a
\* worker is in flight on the session: started and about to call it, or
\* consuming a stream of it.
C9_NoStartChatInFlight ==
    [][chat' # chat
          => \A w \in WorkerIds :
                ~(\/ workers[w].pc = "started"
                  \/ (workers[w].pc = "streaming" /\ workers[w].chat = chat))]_vars

\* C10: save of the empty history on a file that holds a non-empty transcript
\* leaves the file as it is.
C10_EmptySaveNoWrite ==
    [][(ret'.op = "save" /\ ret'.arg = <<>>
        /\ HoldsTranscript(file) /\ TranscriptOf(file) # <<>>)
          => file' = file]_vars

C10_Witness ==
    /\ ret.op = "save" /\ ret.arg = <<>>
    /\ HoldsTranscript(file) /\ TranscriptOf(file) # <<>>

\* C11: a clear_history call that returns leaves the file holding "[]" and the
\* session with an empty transcript; made right after another such call, it
\* changes neither the file nor the transcript, nor anything else the
\* controller or the presentation layer holds.
C11_ClearIdempotent ==
    [][clear_history("ok")
          => /\ file' = File(<<91, 93>>) /\ chat' # 0 /\ sessions'[chat'] = <<>>
             /\ (file = File(<<91, 93>>) /\ chat # 0 /\ sessions[chat] = <<>>)
                   => /\ file' = file
                      /\ sessions'[chat'] = sessions[chat]
                      /\ workers' = workers /\ inputState' = inputState
                      /\ closed' = closed]_vars

\* The state after the second of two clear_history calls in a row.
C11_Witness ==
    /\ file = File(<<91, 93>>)
    /\ sessions = <<<<>>, <<>>>> /\ chat = 2
    /\ \A w \in WorkerIds : workers[w].pc = "unused"

\* C12 (as claimed): a run whose key field holds the very string whose validation result is
\* cached in last_checked_key makes no call of genai.list_models, whichever
\* event has caused the run.
C12_CachedKeyNotRevalidated ==
    [][("last_checked_key" \in DOMAIN st.session_state
        /\ st.session_state["last_checked_key"] = Some(st'.api_key_input))
          => ~st'.run.listed]_vars

\* C12 (amended): a run that the button beside the key field has not caused,
\* and whose key field holds the very string cached in last_checked_key,
\* makes no call of genai.list_models.
C12_CachedKeyNotRevalidatedOnRerun ==
    [][(/\ "last_checked_key" \in DOMAIN st.session_state
        /\ st.session_state["last_checked_key"] = Some(st'.api_key_input)
        /\ ~(\E ok \in BOOLEAN : press_submit(ok)))
          => ~st'.run.listed]_vars

\* A prompt has been sent while the key field held the validated, cached key:
\* the run has sent it without a call of genai.list_models.
C12_Witness ==
    /\ st.app = "beta"
    /\ st.api_key_input # <<>>
    /\ "last_checked_key" \in DOMAIN st.session_state
    /\ st.session_state["last_checked_key"] = Some(st.api_key_input)
    /\ st.session_state["key_valid"]
    /\ st.run.sent /\ ~st.run.listed

\* C13: after a run of ChatBot_beta.py that leaves the last supplied key
\* marked as failed (last_checked_key set, key_valid False), the run has
\* neither built a GeminiChatService nor called send_message on one.
C13_InvalidKeyBlocksSession ==
    (/\ st.app = "beta"
     /\ "last_checked_key" \in DOMAIN st.session_state
     /\ st.session_state["last_checked_key"].some
     /\ ~st.session_state["key_valid"])
        => (~st.run.built /\ ~st.run.sent)

\* C14: chat_service.send_message called while no session has been started
\* raises RuntimeError: the worker never gets a stream (nothing is sent), no
\* session object comes into being, and get_history stays the empty list.
C14_SendBeforeStart ==
    [][\A w \in WorkerIds :
          (workers[w].pc = "started" /\ chat = 0 /\ workers'[w] # workers[w])
            => /\ workers'[w].pc = "done"
               /\ workers'[w].exc = "RuntimeError"
               /\ sessions' = sessions /\ chat' = 0]_vars

C14_Witness ==
    /\ chat = 0 /\ get_history = <<>> /\ sessions = <<>>
    /\ \E w \in WorkerIds :
          workers[w].pc = "done" /\ workers[w].exc = "RuntimeError"

\* No two consecutive turns of the transcript h share a role.
Alternates(h) == \A i \in 1..(Len(h) - 1) : h[i].role # h[i + 1].role

\* C15: start_application on a history file whose transcript has two
\* consecutive turns of one role does not seed the session with it: the
\* transcript of the session afterwards alternates and is not the file's.
C15_ViolatingHistoryRejected ==
    [][(start_application /\ HoldsTranscript(file) /\ ~Alternates(TranscriptOf(file)))
          => LET h == IF chat' # 0 THEN sessions'[chat'] ELSE <<>>
             IN  Alternates(h) /\ h # TranscriptOf(file)]_vars

\* C16: a send that completes on a session whose transcript alternates appends
\* exactly one user turn and then one model turn, and the transcript still
\* alternates.
C16_SendKeepsAlternation ==
    [][\A c \in 1..Len(sessions) :
          (Alternates(sessions[c]) /\ sessions'[c] # sessions[c])
            => /\ Len(sessions'[c]) = Len(sessions[c]) + 2
               /\ SubSeq(sessions'[c], 1, Len(sessions[c])) = sessions[c]
               /\ sessions'[c][Len(sessions[c]) + 1].role = RoleUser
               /\ sessions'[c][Len(sessions[c]) + 2].role = RoleModel
               /\ Alternates(sessions'[c])]_vars

\* C17: a run that finds another model selected than current_model builds a
\* service for that model, and the transcript of its session is the
\* transcript the session had before; the messages shown stay.
C17_ModelSwitchReplaysTranscript ==
    [][(/\ "chat_service" \in DOMAIN st.session_state
        /\ "chat_service" \in DOMAIN st'.session_state
        /\ st'.session_state["current_model"] # st.session_state["current_model"])
          => /\ st'.session_state["chat_service"].model_name = st'.selected_model
             /\ st'.session_state["chat_service"].chat
                    = st.session_state["chat_service"].chat
             /\ st'.session_state["messages"] = st.session_state["messages"]]_vars

\* C18: while a worker is in flight (its thread started, _get_response not yet
\* returned) the input of the presentation layer is disabled.
C18_DisabledWhileInFlight ==
    (\E w \in WorkerIds : InFlight(w)) => inputState = "disabled"

\* The messages are user turn, model turn, user turn, model turn, ...: every
\* user turn has its reply.
MessagesPaired(m) ==
    /\ Len(m) % 2 = 0
    /\ \A i \in 1..Len(m) : m[i].role = (IF i % 2 = 1 THEN RoleUser ELSE RoleModel)

\* C19: a run whose exchange raises, at the call or while the stream is read,
\* leaves st.session_state.messages as it was before the prompt; so after
\* every run the messages are paired.
C19_FailedPromptLeavesMessages ==
    [][/\ st'.run.failed # ""
            => st'.session_state["messages"] = st.session_state["messages"]
       /\ "messages" \in DOMAIN st'.session_state
            => MessagesPaired(st'.session_state["messages"])]_vars

=============================================================================
